---- MODULE Spec2Model ----
(***************************************************************************)
(* State-machine model of the ESPHome integration of Home Assistant       *)
(* (homeassistant/components/esphome/__init__.py): the device session     *)
(* (connect, disconnect, connect error), the reconciliation of entity     *)
(* listings, the state fan-out and the entities' availability.            *)
(***************************************************************************)
EXTENDS Integers, Sequences, FiniteSets, TLC

(***************************************************************************)
(* Bounds of the model.                                                    *)
(***************************************************************************)
MaxKey == 2
MaxListing == 2
MaxEntities == 3
MaxSessionKey == 1
MaxHw == 2
\* VoiceAssistantUDPServer objects that exist at once.
MaxServers == 2
\* State trackers of the session that are active at once.
MaxTrackers == 2

None == "None"

Keys == 1..MaxKey
\* Descriptor contents and state values are only ever compared for equality.
Descs == {"d1", "d2"}
Vals == {"on", "off"}

\* An EntityInfo: the integer key and the descriptive content (unique id,
\* name, icon, category, ...), abstracted to a content version.
EntityInfos == [key : Keys, desc : Descs]

RECURSIVE SeqsUpTo(_, _)
SeqsUpTo(S, n) ==
    IF n = 0 THEN {<<>>}
    ELSE LET shorter == SeqsUpTo(S, n - 1)
         IN shorter \cup {Append(s, x) : s \in {t \in shorter : Len(t) = n - 1}, x \in S}

\* What list_entities_services / the store can hand to async_list_entities:
\* a list of EntityInfo; nothing in the code makes its keys distinct.
Listings == SeqsUpTo(EntityInfos, MaxListing)

Range(s) == {s[i] : i \in DOMAIN s}
InSeq(seq, x) == \E i \in DOMAIN seq : seq[i] = x

(***************************************************************************)
(* Python dicts, as functions on the set of keys present.                  *)
(***************************************************************************)
EmptyDict == [k \in {} |-> None]
DictPop(d, k) == [x \in (DOMAIN d) \ {k} |-> d[x]]
DictSet(d, k, v) == [x \in (DOMAIN d) \cup {k} |-> IF x = k THEN v ELSE d[x]]

(***************************************************************************)
(* Device info, MAC addresses, states, callbacks, errors.                  *)
(***************************************************************************)
\* A MAC address string: the hardware identifier it spells and how it is
\* written ("upper": AA:BB:..., "lower": aa:bb:...).
MacStyles == {"lower", "upper"}
RawMacs == [hw : 1..MaxHw, style : MacStyles]

\* A unique id that is no MAC address: none at all, or the identity config
\* entries had before 2023.1.
NoMac == [hw |-> 0, style |-> "none"]
LegacyId == [hw |-> 0, style |-> "legacy"]

\* homeassistant.helpers.device_registry.format_mac: the canonical lower-case
\* colon-separated form of a MAC address.
format_mac(mac) == [mac EXCEPT !.style = "lower"]

\* Device names, as the sequences of their characters: ESPHome node names
\* are written with or without hyphens.
Name1 == <<"n", "o", "d", "e">>
DeviceNames == {Name1, <<"m", "y", "-", "n", "o", "d", "e">>}

\* aioesphomeapi DeviceInfo, the fields this module reads: mac_address,
\* has_deep_sleep, voice_assistant_version (non-zero or not), whether
\* bluetooth_proxy_feature_flags_compat(api_version) is non-zero, and name.
DeviceInfos == [mac : RawMacs, has_deep_sleep : BOOLEAN,
                voice : BOOLEAN, bt : BOOLEAN, name : DeviceNames]

\* entry_data.device_info before any device info is known (None).
NoDeviceInfo == [mac |-> NoMac, has_deep_sleep |-> FALSE,
                 voice |-> FALSE, bt |-> FALSE, name |-> <<>>]

\* The keys of the entities a device lists in a session, and the (state
\* type, key) pairs of their states.
SessionKeys == 1..MaxSessionKey
StateKinds == {"SensorState"}
Pairs == StateKinds \X SessionKeys

\* The exception classes a connect attempt can end with, each with its base
\* class (aioesphomeapi.core, builtins).
ErrorBase == [APIConnectionError |-> "Exception",
              InvalidAuthAPIError |-> "APIConnectionError",
              ProtocolAPIError |-> "APIConnectionError",
              RequiresEncryptionAPIError |-> "ProtocolAPIError",
              HandshakeAPIError |-> "APIConnectionError",
              InvalidEncryptionKeyAPIError |-> "HandshakeAPIError",
              SocketAPIError |-> "APIConnectionError",
              TimeoutAPIError |-> "APIConnectionError",
              OSError |-> "Exception",
              Exception |-> "None"]
ErrorClasses == DOMAIN ErrorBase

RECURSIVE isinstance(_, _)
isinstance(cls, classes) ==
    IF cls = "None" THEN FALSE
    ELSE cls \in classes \/ isinstance(ErrorBase[cls], classes)

VARIABLES
    info,                 \* entry_data.info[component_key]: key -> EntityInfo
    old_info,             \* entry_data.old_info[component_key]
    entities,             \* the entity objects the host holds (created, not removed)
    device_info,          \* entry_data.device_info (None until known)
    phase,                \* "new" (before async_setup_entry), "running", "unloaded"
    unique_id,            \* entry.unique_id
    available,            \* entry_data.available
    disconnect_callbacks, \* entry_data.disconnect_callbacks
    state,                \* entry_data.state: (state type, key) -> value
    stale_state,          \* entry_data.stale_state
    conn,                 \* the client's connection: "down" or "up"
    pc,                   \* where on_connect is suspended ("idle": not running)
    dc_pending,           \* the reconnect logic has on_disconnect to run
    stopping,             \* hass.is_stopping
    connLog,              \* the calls made by the current on_connect, in order
    last,                 \* record of the last handler that ran
    migr,                 \* unique-id updates since the reported MAC last changed
    listed,               \* record of the last async_list_entities call
    services,             \* entry_data.services: key -> UserService
    host_services,        \* hass.services of the esphome domain: name -> UserService
    cleanup_callbacks,    \* entry_data.cleanup_callbacks
    device_id,            \* device_id of async_setup_entry (None until line 380)
    voice_assistant_udp_server, \* the slot of async_setup_entry: a server, 0 for None
    open_servers,         \* the VoiceAssistantUDPServer objects created and not closed
    assist_pipeline_state, \* entry_data.assist_pipeline_state
    pipeline_tasks,       \* the servers whose run_pipeline task is running
    vpc,                  \* where _handle_pipeline_start is suspended ("idle": not running)
    trackers              \* the state-change trackers that are not cancelled

listVars == <<info, old_info, entities>>
sessVars == <<phase, unique_id, available, disconnect_callbacks, state,
              stale_state, conn, pc, dc_pending, stopping, connLog,
              last, migr>>
svcVars == <<services, host_services, cleanup_callbacks>>
voiceVars == <<voice_assistant_udp_server, open_servers, assist_pipeline_state,
               pipeline_tasks, vpc>>
vars == <<info, old_info, entities, device_info, phase, unique_id,
          available, disconnect_callbacks, state, stale_state, conn, pc,
          dc_pending, stopping, connLog, last, migr, listed, services,
          host_services, cleanup_callbacks, device_id,
          voice_assistant_udp_server, open_servers, assist_pipeline_state,
          pipeline_tasks, vpc, trackers>>

(***************************************************************************)
(* async_list_entities (platform_async_setup_entry).                       *)
(***************************************************************************)

\* line 706: an info whose key is (still) in old_infos updates an existing
\* entity; any other creates one.
IsExisting(old_infos, key) == key \in DOMAIN old_infos

\* The loop with line 713 moved into the else branch: an info of an existing
\* entity is not taken into new_infos.
RECURSIVE ListLoopNewOnly(_, _, _, _)
ListLoopNewOnly(infos, old_infos, new_infos, add_entities) ==
    IF infos = <<>>
    THEN [old_infos |-> old_infos, new_infos |-> new_infos,
          add_entities |-> add_entities]
    ELSE LET i == Head(infos)
         IN IF i.key \in DOMAIN old_infos
            THEN ListLoopNewOnly(Tail(infos), DictPop(old_infos, i.key),
                                 new_infos, add_entities)
            ELSE ListLoopNewOnly(Tail(infos), old_infos,
                                 DictSet(new_infos, i.key, i),
                                 Append(add_entities, i))

\* lines 705-713: the loop over the listing.  old_infos is the very dict
\* entry_data.info[component_key] (line 702), so the pops act on it.
RECURSIVE ListLoop(_, _, _, _)
ListLoop(infos, old_infos, new_infos, add_entities) ==
    IF infos = <<>>
    THEN [old_infos |-> old_infos, new_infos |-> new_infos,
          add_entities |-> add_entities]
    ELSE LET i == Head(infos)
         IN IF IsExisting(old_infos, i.key)
            THEN ListLoop(Tail(infos), DictPop(old_infos, i.key),
                          DictSet(new_infos, i.key, i), add_entities)
            ELSE ListLoop(Tail(infos), old_infos,
                          DictSet(new_infos, i.key, i), Append(add_entities, i))

\* EsphomeEntity.__init__ (lines 786-807): the key, the static info and the
\* device info are taken at construction; the entity has no state yet.
EntityInit(id, entity_info, dev) ==
    [id |-> id, key |-> entity_info.key, static_info |-> entity_info,
     deep |-> dev.has_deep_sleep, added |-> FALSE,
     has_state |-> FALSE, state |-> <<>>]

\* lines 716-717 with entry_data.async_remove_entity: the remove signal of a
\* key reaches the entities connected to it (async_added_to_hass, line 819),
\* which the host then removes.
RemoveSignalled(ents, keys) == {e \in ents : ~(e.added /\ e.key \in keys)}

\* The dict entry_data.info[component_key] as a receiver of the static-info
\* signal finds it (lines 720-724: the signal is sent after line 722).
InfoAtDispatch(popped, new_infos) == new_infos

\* lines 724-729 with _on_static_info_update (lines 844-863): every key of
\* new_infos is signalled with its new info; a connected entity stores it.
StaticInfoSignalled(ents, new_infos) ==
    {IF e.added /\ e.key \in DOMAIN new_infos
        THEN [e EXCEPT !.static_info = new_infos[e.key]]
        ELSE e : e \in ents}

\* The identities of n new objects: the first n naturals, from `from` on,
\* that no object of `used` has.
RECURSIVE FreshIds(_, _, _)
FreshIds(used, n, from) ==
    IF n = 0 THEN <<>>
    ELSE IF from \in used THEN FreshIds(used, n, from + 1)
    ELSE <<from>> \o FreshIds(used, n - 1, from + 1)

\* lines 711-712, 731-733: the entity objects constructed by the loop,
\* handed to async_add_entities.
NewEntities(add_entities, ents, dev) ==
    LET ids == FreshIds({e.id : e \in ents}, Len(add_entities), 1)
    IN {EntityInit(ids[n], add_entities[n], dev) : n \in DOMAIN add_entities}

\* lines 699-733: the outcome of one call, from the dict held before it, the
\* entities held before it and the device info.
async_list_entities(infos, info0, ents, dev) ==
    LET loop == ListLoop(infos, info0, EmptyDict, <<>>)
        removed == DOMAIN loop.old_infos
        kept == RemoveSignalled(ents, removed)
        seen == InfoAtDispatch(loop.old_infos, loop.new_infos)
        receivers == {e \in kept : e.added /\ e.key \in DOMAIN loop.new_infos}
        created == NewEntities(loop.add_entities, ents, dev)
    IN [old_info |-> loop.old_infos,
        info |-> loop.new_infos,
        entities |-> StaticInfoSignalled(kept, loop.new_infos) \cup created,
        call |-> [A |-> info0, B |-> infos,
                  connected |-> {e.id : e \in {x \in ents : x.added}},
                  created |-> {[id |-> e.id, key |-> e.key] : e \in created},
                  removed |-> removed,
                  notified |-> {[id |-> e.id, key |-> e.key,
                                 with |-> loop.new_infos[e.key],
                                 info_seen |-> seen] : e \in receivers}]]

\* _update_state_from_entry_data setting the flag without a look at the cache.
update_state_assumed(e, cache) == [e EXCEPT !.has_state = TRUE]
\* _update_state_from_entry_data (lines 865-875).
update_state_from_entry_data(e, cache) ==
    LET has_state == <<"SensorState", e.key>> \in DOMAIN cache
    IN [e EXCEPT !.has_state = has_state,
                 !.state = IF has_state THEN <<cache[<<"SensorState", e.key>>]>>
                           ELSE e.state]

\* The host finishes adding an entity: async_added_to_hass (lines 809-842)
\* connects it to the remove, device-updated, state and static-info signals
\* and takes the cached state.
async_added_to_hass(e) ==
    /\ ~e.added
    /\ entities' = (entities \ {e}) \cup
                   {update_state_from_entry_data([e EXCEPT !.added = TRUE], state)}

(***************************************************************************)
(* User-defined services: _register_service and _setup_services.           *)
(***************************************************************************)

\* The argument types _register_service knows (the keys of
\* ARG_TYPE_METADATA, lines 518-563).
ARG_TYPE_METADATA == {"BOOL", "INT", "FLOAT", "STRING", "BOOL_ARRAY",
                      "INT_ARRAY", "FLOAT_ARRAY", "STRING_ARRAY"}

\* A UserService: key, name and the types of its arguments.  The key is
\* derived from the name by the device, so a name has one key.  The device
\* has a service s1, whose arguments vary from listing to listing, and a
\* service s2.
ArgLists == {<<>>, <<"BOOL">>, <<"BOOL", "UNKNOWN">>}
UserServices ==
    {[key |-> 1, name |-> <<"s", "1">>, args |-> a] : a \in ArgLists}
        \cup {[key |-> 2, name |-> <<"s", "2">>, args |-> <<"INT">>]}

\* What list_entities_services / the store can hand to _setup_services.
ServiceListings == SeqsUpTo(UserServices, MaxListing)

\* str.replace(old, new) for single characters.
str_replace(str, old, new) ==
    [i \in DOMAIN str |-> IF str[i] = old THEN new ELSE str[i]]

\* line 571: the name _register_service registers a service under.
RegisterName(dev, service) ==
    str_replace(dev.name, "-", "_") \o <<"_">> \o service.name

\* line 638: the name _setup_services removes a service under.
RemoveName(dev, service) == dev.name \o <<"_">> \o service.name

\* lines 575-583: an argument of a type that is not in ARG_TYPE_METADATA.
HasUnknownArg(service) ==
    \E i \in DOMAIN service.args : service.args[i] \notin ARG_TYPE_METADATA

\* hass.services.async_register and async_remove of the host, on the
\* services of the esphome domain.
async_register(host, name, service) == DictSet(host, name, service)
async_remove(host, name) == IF name \in DOMAIN host THEN DictPop(host, name) ELSE host

\* _register_service without the test of the argument types.
register_service_unchecked(r, dev, service) ==
    [r EXCEPT !.host = async_register(@, RegisterName(dev, service), service),
              !.log = Append(@, [act |-> "async_register",
                                 name |-> RegisterName(dev, service),
                                 service |-> service])]

\* _register_service (lines 566-609) on the record r of the host's services
\* and the calls made.
register_service(r, dev, service) ==
    IF HasUnknownArg(service)
    THEN [r EXCEPT !.log = Append(@, [act |-> "skip", name |-> RegisterName(dev, service),
                                      service |-> service])]
    ELSE [r EXCEPT !.host = async_register(@, RegisterName(dev, service), service),
                   !.log = Append(@, [act |-> "async_register",
                                      name |-> RegisterName(dev, service),
                                      service |-> service])]

\* lines 621-630: the loop over the listing.
RECURSIVE SetupLoop(_, _, _, _)
SetupLoop(listing, old_services, to_unregister, to_register) ==
    IF listing = <<>>
    THEN [old_services |-> old_services, to_unregister |-> to_unregister,
          to_register |-> to_register]
    ELSE LET service == Head(listing)
         IN IF service.key \in DOMAIN old_services
            THEN IF old_services[service.key] # service
                 THEN SetupLoop(Tail(listing), DictPop(old_services, service.key),
                                Append(to_unregister, old_services[service.key]),
                                Append(to_register, service))
                 ELSE SetupLoop(Tail(listing), DictPop(old_services, service.key),
                                to_unregister, to_register)
            ELSE SetupLoop(Tail(listing), old_services, to_unregister,
                           Append(to_register, service))

\* dict.values(), in the order of the keys.
RECURSIVE DictValues(_)
DictValues(d) ==
    IF DOMAIN d = {} THEN <<>>
    ELSE LET k == CHOOSE x \in DOMAIN d : \A y \in DOMAIN d : x <= y
         IN <<d[k]>> \o DictValues(DictPop(d, k))

\* line 635: {serv.key: serv for serv in services}.
RECURSIVE ServicesByKey(_, _)
ServicesByKey(listing, d) ==
    IF listing = <<>> THEN d
    ELSE ServicesByKey(Tail(listing), DictSet(d, Head(listing).key, Head(listing)))

\* lines 637-639.
RECURSIVE UnregisterAll(_, _, _)
UnregisterAll(r, dev, to_unregister) ==
    IF to_unregister = <<>> THEN r
    ELSE LET service == Head(to_unregister)
             name == RemoveName(dev, service)
         IN UnregisterAll([r EXCEPT !.host = async_remove(@, name),
                                    !.log = Append(@, [act |-> "async_remove",
                                                       name |-> name,
                                                       service |-> service])],
                          dev, Tail(to_unregister))

\* lines 641-642.
RECURSIVE RegisterAll(_, _, _)
RegisterAll(r, dev, to_register) ==
    IF to_register = <<>> THEN r
    ELSE RegisterAll(register_service(r, dev, Head(to_register)), dev,
                     Tail(to_register))

\* _setup_services (lines 612-642): the outcome of one call.
setup_services(listing, svcs, host, dev) ==
    IF dev = NoDeviceInfo
    THEN [services |-> svcs, host |-> host, returned_early |-> TRUE,
          to_unregister |-> <<>>, to_register |-> <<>>, log |-> <<>>]
    ELSE LET loop == SetupLoop(listing, svcs, <<>>, <<>>)
             to_unregister == loop.to_unregister \o DictValues(loop.old_services)
             r == RegisterAll(UnregisterAll([host |-> host, log |-> <<>>],
                                            dev, to_unregister),
                              dev, loop.to_register)
         IN [services |-> ServicesByKey(listing, EmptyDict), host |-> r.host,
             returned_early |-> FALSE, to_unregister |-> to_unregister,
             to_register |-> loop.to_register, log |-> r.log]

(***************************************************************************)
(* async_on_service_call: a request of the device to the host.             *)
(***************************************************************************)

\* A HomeassistantServiceCall: service is "<domain>.<name>", given as the
\* result of service.service.split(".", 1) (line 194); data_template says
\* whether the request has templates, renders whether rendering them
\* succeeds (no TemplateError).
ServiceCallDomains == {"esphome", "ESPHome", "light"}
ServiceCallNames == {"tag_scanned", "turn_on"}
TagIds == {"no tag_id", "tag1"}
HomeassistantServiceCalls ==
    [domain : ServiceCallDomains, service_name : ServiceCallNames,
     is_event : BOOLEAN, data_template : BOOLEAN, renders : BOOLEAN,
     tag_id : TagIds]

\* The device registry id _async_setup_device_registry returns (line 380).
DeviceId == "device1"

\* lines 197-208 going on after a TemplateError.
TemplateErrorIgnored(service) == FALSE
\* lines 197-208: the rendering of the data template fails.
TemplateFails(service) == service.data_template /\ ~service.renders

\* line 213 letting every domain pass.
AnyEventDomain(domain) == TRUE
\* line 213: the domain an event may be sent under.
EventDomainAllowed(domain) == domain = "esphome"

\* lines 227-230 without the device id.
EventDataOnly(service, dev_id) == [tag_id |-> service.tag_id]
\* lines 227-230: the data of the event, the device id first.
EventData(service, dev_id) ==
    [device_id |-> dev_id, tag_id |-> service.tag_id]

\* lines 210-237: the calls made to the host, the data being at hand.  A
\* tag_scanned event without a tag_id in its data ends in a KeyError (line
\* 221) and nothing is called.
ForwardCalls(service, dev_id) ==
    IF service.is_event
    THEN IF ~EventDomainAllowed(service.domain) THEN <<>>
         ELSE IF service.service_name = "tag_scanned" /\ dev_id # None
              THEN IF service.tag_id = "no tag_id" THEN <<>>
                   ELSE <<[fn |-> "tag.async_scan_tag", tag_id |-> service.tag_id,
                           device_id |-> dev_id]>>
              ELSE <<[fn |-> "bus.async_fire",
                      event_type |-> <<service.domain, service.service_name>>,
                      event_data |-> EventData(service, dev_id)]>>
    ELSE <<[fn |-> "services.async_call", domain |-> service.domain,
            service |-> service.service_name, blocking |-> TRUE]>>

\* lines 210-237: what the host is asked to do, the data being at hand.
Forward(service, has_device_id) ==
    LET calls == ForwardCalls(service, IF has_device_id THEN DeviceId ELSE None)
    IN [i \in DOMAIN calls |-> calls[i].fn]

\* async_on_service_call (lines 191-237): the calls made to the host.
async_on_service_call(service, has_device_id) ==
    IF TemplateFails(service) THEN <<>> ELSE Forward(service, has_device_id)

\* The record of a request handled with device_id being dev_id.
Handled(service, dev_id) ==
    [op |-> "async_on_service_call", service |-> service,
     has_device_id |-> dev_id # None,
     calls |-> async_on_service_call(service, dev_id # None),
     host_calls |-> IF TemplateFails(service) THEN <<>>
                    ELSE ForwardCalls(service, dev_id)]

(***************************************************************************)
(* SpecList: listings applied to one component of a session whose device   *)
(* info is known.                                                          *)
(***************************************************************************)
NoCall == [A |-> EmptyDict, B |-> <<>>, connected |-> {}, created |-> {},
           removed |-> {}, notified |-> {}]

NoMigr == [prev |-> NoMac, updates |-> 0, needed |-> FALSE]

InitCommon ==
    /\ info = EmptyDict
    /\ old_info = EmptyDict
    /\ entities = {}
    /\ available = FALSE
    /\ disconnect_callbacks = <<>>
    /\ state = EmptyDict
    /\ stale_state = {}
    /\ conn = "down"
    /\ pc = "idle"
    /\ dc_pending = FALSE
    /\ stopping = FALSE
    /\ connLog = <<>>
    /\ last = [op |-> "none"]
    /\ migr = NoMigr
    /\ listed = NoCall
    /\ services = EmptyDict
    /\ host_services = EmptyDict
    /\ cleanup_callbacks = <<>>
    /\ device_id = None
    /\ voice_assistant_udp_server = 0
    /\ open_servers = {}
    /\ assist_pipeline_state = FALSE
    /\ pipeline_tasks = {}
    /\ vpc = "idle"
    /\ trackers = {}

InitList ==
    /\ InitCommon
    /\ phase = "running"
    /\ unique_id = NoMac
    /\ device_info \in {d \in DeviceInfos : d.mac = [hw |-> 1, style |-> "lower"]
                                             /\ ~d.voice /\ ~d.bt
                                             /\ d.name = Name1}

ListEntities ==
    \E infos \in Listings :
        /\ \A e \in entities : e.added
        /\ Cardinality(entities) + Len(infos) <= MaxEntities
        /\ LET r == async_list_entities(infos, info, entities, device_info)
           IN /\ info' = r.info
              /\ old_info' = r.old_info
              /\ entities' = r.entities
              /\ listed' = r.call
        /\ UNCHANGED <<device_info, sessVars,
                   svcVars, voiceVars, device_id, trackers>>

EntityAdded ==
    \E e \in entities :
        /\ async_added_to_hass(e)
        /\ UNCHANGED <<info, old_info, device_info, listed, sessVars,
                   svcVars, voiceVars, device_id, trackers>>

NextList == ListEntities \/ EntityAdded

SpecList == InitList /\ [][NextList]_vars

(***************************************************************************)
(* The device session: async_setup_entry and its handlers.                 *)
(***************************************************************************)

\* What the device lists in a session: a list of EntityInfo with distinct
\* keys (the reconciliation of arbitrary listings is the subject of SpecList).
DeviceListings ==
    {l \in Listings : /\ \A i \in DOMAIN l : l[i].desc = "d1" /\ l[i].key \in SessionKeys
                      /\ \A i, j \in DOMAIN l : i < j => l[i].key < l[j].key}

\* The identities a config entry can hold before its first connect: none, the
\* pre-2023.1 identity (not a MAC address) or a formatted MAC address.
InitialUniqueIds == {NoMac, LegacyId} \cup {format_mac(m) : m \in RawMacs}

\* lines 419-423: every (state type, key) with a cached state.
CachedPairs(cache) == DOMAIN cache

\* EsphomeEntity.available (lines 903-911).
EntityAvailable(e, avail) == IF e.deep THEN TRUE ELSE avail

Added(ents) == {e \in ents : e.added}

\* _on_device_update writing the state whatever entry_data.available is.
OnDeviceUpdateWritesAlways(ents, avail) ==
    {[id |-> e.id, available |-> EntityAvailable(e, avail)] : e \in Added(ents)}
\* _on_device_update (lines 892-901) of every entity connected to the
\* device-updated signal: the host states written.
OnDeviceUpdateWrites(ents, avail) ==
    IF ~avail
    THEN {[id |-> e.id, available |-> EntityAvailable(e, avail)] : e \in Added(ents)}
    ELSE {}

\* entry_data.async_update_device_state: the device-updated signal, received
\* by the connected entities while it is sent.
DeviceUpdated(s) ==
    [s EXCEPT !.dispatches = Append(s.dispatches,
                                    [available |-> s.available, stale |-> s.stale]),
              !.writes = s.writes \cup OnDeviceUpdateWrites(entities, s.available)]

\* on_disconnect (lines 409-429), statement by statement, on the record s of
\* what the handler reads and writes.
\* disconnect_cb(): the callback object has been called once more.
Call(cb) == [cb EXCEPT !.calls = @ + 1]
\* An unsub that cancels nothing.
NotCancelled(trs, cbs) == trs
\* The trackers left when the callbacks of cbs have been called: the unsub of
\* a tracker (line 291) cancels it.
Cancelled(trs, cbs) ==
    {t \in trs : ~\E i \in DOMAIN cbs : cbs[i].kind = "tracker" /\ cbs[i].id = t.id}
\* lines 413-414
DcRunCallbacks(s) ==
    [s EXCEPT !.called = s.called \o s.callbacks,
              !.callbacks = [i \in DOMAIN s.callbacks |-> Call(s.callbacks[i])]]
\* line 415 left out
DcKeepCallbacks(s) == s
\* line 415
DcClearCallbacks(s) == [s EXCEPT !.callbacks = <<>>]
\* line 416 left out
DcLeaveAvailable(s) == s
\* line 416
DcSetUnavailable(s) == [s EXCEPT !.available = FALSE]
\* lines 419-423 adding nothing to the stale set
DcMarkNothing(s) == s
\* lines 419-423
DcMarkStale(s) == [s EXCEPT !.stale = CachedPairs(state)]
\* lines 424-429 without the test of hass.is_stopping
DcUpdateDeviceStateAlways(s) == DeviceUpdated(s)
\* lines 424-429
DcUpdateDeviceState(s) == IF ~stopping THEN DeviceUpdated(s) ELSE s

on_disconnect(s) ==
    DcUpdateDeviceState(DcMarkStale(DcSetUnavailable(
        DcClearCallbacks(DcRunCallbacks(s)))))

HandlerStart ==
    [callbacks |-> disconnect_callbacks, available |-> available,
     stale |-> stale_state, called |-> <<>>, dispatches |-> <<>>, writes |-> {}]

OnDisconnect ==
    /\ dc_pending
    /\ LET s == on_disconnect(HandlerStart)
       IN /\ disconnect_callbacks' = s.callbacks
          /\ available' = s.available
          /\ stale_state' = s.stale
          /\ trackers' = Cancelled(trackers, s.called)
          /\ last' = [op |-> "on_disconnect",
                      callbacks |-> disconnect_callbacks,
                      cached |-> CachedPairs(state),
                      stopping |-> stopping,
                      connected |-> {e.id : e \in Added(entities)},
                      called |-> s.called,
                      dispatches |-> s.dispatches,
                      writes |-> s.writes]
    /\ dc_pending' = FALSE
    /\ UNCHANGED <<listVars, device_info, phase, unique_id, state, conn, pc,
                   stopping, connLog, migr, listed,
                   svcVars, voiceVars, device_id>>

\* A new callback object of the given kind, distinct from those of the list
\* and not called yet.
NewCallback(kind, cbs) ==
    [kind |-> kind, id |-> FreshIds({cbs[i].id : i \in DOMAIN cbs}, 1, 1)[1],
     calls |-> 0]

\* on_connect_error (lines 431-441).
ReauthErrors == {"RequiresEncryptionAPIError", "InvalidEncryptionKeyAPIError",
                 "InvalidAuthAPIError"}
\* on_connect_error testing for the base class of the client errors.
on_connect_error_any(err) == isinstance(err, {"APIConnectionError"})
on_connect_error(err) == isinstance(err, ReauthErrors)

\* The reconnect logic trying to connect before async_setup_entry has
\* started it.
CanTryConnectUnstarted ==
    /\ phase # "unloaded"
    /\ conn = "down"
    /\ pc = "idle"
    /\ ~dc_pending
\* The reconnect logic may try to connect: it was started (line 463), not
\* stopped, the connection is down and the previous disconnect has been
\* handled.
CanTryConnect ==
    /\ phase = "running"
    /\ conn = "down"
    /\ pc = "idle"
    /\ ~dc_pending

\* ReconnectLogic (lines 443-450): a connect attempt fails with err and
\* on_connect_error is awaited.
ConnectFailed ==
    \E err \in ErrorClasses \ {"Exception"} :
        /\ CanTryConnect
        /\ last' = [op |-> "on_connect_error", err |-> err,
                    reauth |-> on_connect_error(err)]
        /\ UNCHANGED <<listVars, device_info, phase, unique_id, available,
                       disconnect_callbacks, state, stale_state, conn, pc,
                       dc_pending, stopping, connLog, migr, listed,
                   svcVars, voiceVars, device_id, trackers>>

\* ReconnectLogic: the handshake succeeds and on_connect starts: it awaits
\* cli.device_info() (line 352).
Connected ==
    /\ CanTryConnect
    /\ conn' = "up"
    /\ pc' = "device_info"
    /\ connLog' = <<"device_info">>
    /\ last' = [op |-> "connected"]
    /\ UNCHANGED <<listVars, device_info, phase, unique_id, available,
                   disconnect_callbacks, state, stale_state, dc_pending,
                   stopping, migr, listed,
                   svcVars, voiceVars, device_id, trackers>>

\* line 356 comparing with the MAC address as the device reports it.
NeedsMigrationRaw(uid, mac) == uid # mac
\* line 356: whether the entry's unique id is to be replaced.
NeedsMigration(uid, mac) == uid # format_mac(mac)

\* lines 356-359.
MigrateUniqueId(uid, mac) ==
    IF NeedsMigration(uid, mac)
    THEN [called |-> TRUE, unique_id |-> format_mac(mac)]
    ELSE [called |-> FALSE, unique_id |-> uid]

\* The unique-id updates on_connect has made since the formatted MAC address
\* the device reports last changed.
MigrTrack(m, uid, mac, called) ==
    LET f == format_mac(mac)
        newrun == m.prev # f
    IN [prev |-> f,
        needed |-> IF newrun THEN uid # f ELSE m.needed,
        updates |-> (IF newrun THEN 0 ELSE m.updates) + (IF called THEN 1 ELSE 0)]

\* lines 380-388 with the state subscription made before the listing.
AfterScannerSubscribing(log) ==
    log \o <<"update_device_state", "subscribe_states", "list_entities_services">>
\* lines 380-385: the device registry entry, the device-updated signal, then
\* the await of cli.list_entities_services().
AfterScanner(log) == log \o <<"update_device_state", "list_entities_services">>

\* line 383: the device-updated signal of on_connect, entry_data.available
\* being avail.
OnConnectDeviceUpdate(avail) ==
    DeviceUpdated([HandlerStart EXCEPT !.available = avail])

\* lines 380-382 left out: device_id keeps the None of line 158.
device_id_not_stored == None
\* lines 380-382: the id of the device registry entry, kept in device_id.
async_setup_device_registry == DeviceId

\* on_connect resumes with the device info (lines 352-378).
ConnectDeviceInfo(D) ==
    \E dev \in D :
        /\ pc = "device_info"
        /\ conn = "up"
        /\ LET m == MigrateUniqueId(unique_id, dev.mac)
           IN /\ unique_id' = m.unique_id
              /\ migr' = MigrTrack(migr, unique_id, dev.mac, m.called)
              /\ last' = [op |-> "on_connect_device_info", mac |-> dev.mac,
                          uid_before |-> unique_id, update_called |-> m.called,
                          dispatches |-> IF dev.bt THEN <<>>
                                         ELSE OnConnectDeviceUpdate(TRUE).dispatches,
                          writes |-> IF dev.bt THEN {}
                                     ELSE OnConnectDeviceUpdate(TRUE).writes]
        /\ device_info' = dev
        /\ available' = TRUE
        /\ IF dev.bt
           THEN /\ pc' = "scanner"
                /\ connLog' = Append(connLog, "connect_scanner")
                /\ device_id' = device_id
           ELSE /\ pc' = "list"
                /\ connLog' = AfterScanner(connLog)
                /\ device_id' = async_setup_device_registry
        /\ UNCHANGED <<listVars, phase, disconnect_callbacks, state,
                       stale_state, conn, dc_pending, stopping, listed,
                   svcVars, voiceVars, trackers>>

\* on_connect resumes from async_connect_scanner (lines 375-385).
ConnectScanner ==
    /\ pc = "scanner"
    /\ conn = "up"
    /\ disconnect_callbacks' =
           Append(disconnect_callbacks, NewCallback("scanner", disconnect_callbacks))
    /\ pc' = "list"
    /\ connLog' = AfterScanner(connLog)
    /\ device_id' = async_setup_device_registry
    /\ last' = [op |-> "on_connect_scanner",
                dispatches |-> OnConnectDeviceUpdate(available).dispatches,
                writes |-> OnConnectDeviceUpdate(available).writes]
    /\ UNCHANGED <<listVars, device_info, phase, unique_id, available, state,
                   stale_state, conn, dc_pending, stopping, migr, listed,
                   svcVars, voiceVars, trackers>>

\* lines 386-388: what on_connect does with the listing, up to the await of
\* cli.subscribe_states.
AfterListing(log) ==
    log \o <<"update_static_infos", "setup_services", "subscribe_states">>

\* The services of the device of a session: none (the services are the
\* subject of SpecServices).
NoServices == <<>>

\* entry_data.cleanup_callbacks: the removal of the on_stop listener (lines
\* 187-189), of the platform's static-info callback (lines 735-737, once the
\* platform is set up for a listing with entities) and the stop of the
\* reconnect logic (line 464).
StaticInfoCleanup(cbs, infos) ==
    IF infos # <<>> /\ ~InSeq(cbs, "remove_static_info_callback")
    THEN Append(cbs, "remove_static_info_callback")
    ELSE cbs

\* on_connect resumes with the entity listing (lines 385-388).  The host has
\* finished adding the entities of the previous listing by then.
ConnectListed(L) ==
    \E infos \in L :
        /\ pc = "list"
        /\ conn = "up"
        /\ \A e \in entities : e.added
        /\ LET r == async_list_entities(infos, info, entities, device_info)
               sv == setup_services(NoServices, services, host_services, device_info)
           IN /\ info' = r.info
              /\ old_info' = r.old_info
              /\ entities' = r.entities
              /\ services' = sv.services
              /\ host_services' = sv.host
        /\ cleanup_callbacks' = StaticInfoCleanup(cleanup_callbacks, infos)
        /\ pc' = "sub_states"
        /\ connLog' = AfterListing(connLog)
        /\ last' = [op |-> "on_connect_listed"]
        /\ UNCHANGED <<device_info, phase, unique_id, available,
                       disconnect_callbacks, state, stale_state, conn,
                       dc_pending, stopping, migr, listed, voiceVars, device_id, trackers>>

\* lines 388-390: the subscription on_connect makes when the one it awaits
\* has been made.
NextSubscription(at) ==
    IF at = "sub_states" THEN [pc |-> "sub_calls", call |-> "subscribe_service_calls"]
    ELSE [pc |-> "sub_ha", call |-> "subscribe_home_assistant_states"]

ConnectSubscribed ==
    /\ pc \in {"sub_states", "sub_calls"}
    /\ conn = "up"
    /\ pc' = NextSubscription(pc).pc
    /\ connLog' = Append(connLog, NextSubscription(pc).call)
    /\ last' = [op |-> "on_connect_subscribed"]
    /\ UNCHANGED <<listVars, device_info, phase, unique_id, available,
                   disconnect_callbacks, state, stale_state, conn, dc_pending,
                   stopping, migr, listed,
                   svcVars, voiceVars, device_id, trackers>>

\* lines 400-407: the save is scheduled and, no error having been raised,
\* the two issue checks run.
ConnectEnd(log) ==
    log \o <<"save_to_store", "check_firmware_version", "check_using_api_password">>

\* on_connect resumes from cli.subscribe_home_assistant_states (lines
\* 390-407).
ConnectSubscribedHA ==
    /\ pc = "sub_ha"
    /\ conn = "up"
    /\ IF device_info.voice
       THEN /\ pc' = "voice"
            /\ connLog' = Append(connLog, "subscribe_voice_assistant")
       ELSE /\ pc' = "idle"
            /\ connLog' = ConnectEnd(connLog)
    /\ last' = [op |-> "on_connect_subscribed"]
    /\ UNCHANGED <<listVars, device_info, phase, unique_id, available,
                   disconnect_callbacks, state, stale_state, conn, dc_pending,
                   stopping, migr, listed,
                   svcVars, voiceVars, device_id, trackers>>

\* on_connect resumes from cli.subscribe_voice_assistant (lines 392-407).
ConnectSubscribedVoice ==
    /\ pc = "voice"
    /\ conn = "up"
    /\ disconnect_callbacks' =
           Append(disconnect_callbacks, NewCallback("voice", disconnect_callbacks))
    /\ pc' = "idle"
    /\ connLog' = ConnectEnd(connLog)
    /\ last' = [op |-> "on_connect_subscribed"]
    /\ UNCHANGED <<listVars, device_info, phase, unique_id, available, state,
                   stale_state, conn, dc_pending, stopping, migr, listed,
                   svcVars, voiceVars, device_id, trackers>>

\* The awaits of on_connect that can raise APIConnectionError.
ClientAwaits == {"device_info", "scanner", "list", "sub_states", "sub_calls",
                 "sub_ha", "voice"}

\* line 401 catching the timeout of a call only.
CaughtTimeoutOnly(err) == isinstance(err, {"TimeoutAPIError"})
\* line 401: the errors the except clause of on_connect catches.
Caught(err) == isinstance(err, {"APIConnectionError"})

\* What an awaited client call of on_connect raises when it fails: the
\* client's connection error or one of its subclasses.
CallErrors == {"APIConnectionError", "TimeoutAPIError"}

\* lines 401-404: an awaited call raises; an APIConnectionError is logged and
\* cli.disconnect() awaited, any other error leaves on_connect.
ConnectApiError ==
    \E err \in CallErrors :
        /\ pc \in ClientAwaits
        /\ IF Caught(err)
           THEN /\ pc' = "disconnecting"
                /\ connLog' = Append(connLog, "disconnect")
           ELSE /\ pc' = "idle"
                /\ connLog' = connLog
        /\ last' = [op |-> "on_connect_failed", err |-> err,
                    raised |-> ~Caught(err)]
        /\ UNCHANGED <<listVars, device_info, phase, unique_id, available,
                       disconnect_callbacks, state, stale_state, conn, dc_pending,
                       stopping, migr, listed, svcVars, voiceVars, device_id, trackers>>

\* line 404 returns: the client has closed the connection, which the
\* reconnect logic answers with on_disconnect.
ConnectDisconnected ==
    /\ pc = "disconnecting"
    /\ pc' = "idle"
    /\ conn' = "down"
    /\ dc_pending' = (dc_pending \/ (conn = "up" /\ phase = "running"))
    /\ last' = [op |-> "on_connect_disconnected"]
    /\ UNCHANGED <<listVars, device_info, phase, unique_id, available,
                   disconnect_callbacks, state, stale_state, stopping,
                   connLog, migr, listed,
                   svcVars, voiceVars, device_id, trackers>>

\* The connection is lost; the reconnect logic will run on_disconnect.
ConnectionLost ==
    /\ conn = "up"
    /\ conn' = "down"
    /\ dc_pending' = TRUE
    /\ UNCHANGED <<listVars, device_info, phase, unique_id, available,
                   disconnect_callbacks, state, stale_state, pc, stopping,
                   connLog, last, migr, listed,
                   svcVars, voiceVars, device_id, trackers>>

\* _on_state_update (lines 877-884) of the entities subscribed to the pair.
OnStateUpdate(ents, cache, p) ==
    {IF e.added /\ p = <<"SensorState", e.key>>
        THEN update_state_from_entry_data(e, cache)
        ELSE e : e \in ents}

Subscribers(ents, p) == {e.id : e \in {x \in Added(ents) : p = <<"SensorState", x.key>>}}

\* entry_data.async_update_state: a state equal to the cached one is dropped
\* unless the pair is stale; any other is cached, the pair is no longer
\* stale and the entities subscribed to the pair are called.
async_update_state(p, v) ==
    IF p \in DOMAIN state /\ state[p] = v /\ p \notin stale_state
    THEN [state |-> state, stale |-> stale_state, entities |-> entities,
          delivered |-> FALSE, called |-> {}]
    ELSE LET cache == DictSet(state, p, v)
         IN [state |-> cache, stale |-> stale_state \ {p},
             entities |-> OnStateUpdate(entities, cache, p),
             delivered |-> TRUE, called |-> Subscribers(entities, p)]

\* The device pushes a state of a pair of P over the connection, once
\* on_connect has called cli.subscribe_states (line 388).
PushState(P) ==
    \E p \in P, v \in Vals :
        /\ conn = "up"
        /\ "subscribe_states" \in Range(connLog)
        /\ LET r == async_update_state(p, v)
           IN /\ state' = r.state
              /\ stale_state' = r.stale
              /\ entities' = r.entities
              /\ last' = [op |-> "async_update_state", pair |-> p, val |-> v,
                          same |-> p \in DOMAIN state /\ state[p] = v,
                          was_stale |-> p \in stale_state,
                          subscribers |-> Subscribers(entities, p),
                          delivered |-> r.delivered, called |-> r.called,
                          changed |-> {e.id : e \in entities \ r.entities}]
        /\ UNCHANGED <<info, old_info, device_info, phase, unique_id,
                       available, disconnect_callbacks, conn, pc, dc_pending,
                       stopping, connLog, migr, listed,
                   svcVars, voiceVars, device_id, trackers>>

StateUpdate == PushState(Pairs)

\* The host finishes adding an entity.
SessionEntityAdded ==
    \E e \in entities :
        /\ phase = "running"
        /\ async_added_to_hass(e)
        /\ last' = [op |-> "async_added_to_hass", id |-> e.id]
        /\ UNCHANGED <<info, old_info, device_info, phase, unique_id,
                       available, disconnect_callbacks, state, stale_state,
                       conn, pc, dc_pending, stopping, connLog, migr,
                       listed,
                   svcVars, voiceVars, device_id, trackers>>

\* The host starts to stop: hass.is_stopping is true from then on.
HostStopping ==
    /\ ~stopping
    /\ stopping' = TRUE
    /\ UNCHANGED <<listVars, device_info, phase, unique_id, available,
                   disconnect_callbacks, state, stale_state, conn, pc,
                   dc_pending, connLog, last, migr, listed,
                   svcVars, voiceVars, device_id, trackers>>

\* _cleanup_instance (lines 645-658), statement by statement, on the record s
\* of what it reads and writes and of the calls it makes.
CleanupStart ==
    [in_domain_data |-> TRUE, available |-> available,
     callbacks |-> disconnect_callbacks, called |-> <<>>,
     cleanup_called |-> <<>>, log |-> <<>>]
\* line 650
CuPopEntryData(s) ==
    [s EXCEPT !.in_domain_data = FALSE, !.log = Append(@, "pop_entry_data")]
\* line 651
CuSetUnavailable(s) ==
    [s EXCEPT !.available = FALSE, !.log = Append(@, "available_false")]
\* lines 652-653
CuRunDisconnectCallbacks(s) ==
    [s EXCEPT !.called = @ \o s.callbacks,
              !.callbacks = [i \in DOMAIN s.callbacks |-> Call(s.callbacks[i])],
              !.log = Append(@, "disconnect_callbacks")]
\* line 654 left out
CuKeepCallbacks(s) == s
\* line 654
CuClearCallbacks(s) == [s EXCEPT !.callbacks = <<>>]
\* lines 655-656 left out
CuSkipCleanupCallbacks(s) == s
\* lines 655-656
CuRunCleanupCallbacks(s) ==
    [s EXCEPT !.cleanup_called = @ \o cleanup_callbacks,
              !.log = Append(@, "cleanup_callbacks")]
\* line 657
CuClientDisconnect(s) == [s EXCEPT !.log = Append(@, "client_disconnect")]

cleanup(s) ==
    CuClientDisconnect(CuRunCleanupCallbacks(CuClearCallbacks(
        CuRunDisconnectCallbacks(CuSetUnavailable(CuPopEntryData(s))))))

\* _cleanup_instance as a step of the session: the cleanup callbacks stop
\* the reconnect logic, the client disconnects.  Whether the stopped
\* reconnect logic still runs on_disconnect for a connection that was up is
\* the client library's choice.
cleanup_instance(after) ==
    /\ phase = "running"
    /\ LET s == cleanup(CleanupStart)
       IN /\ phase' = IF s.in_domain_data THEN phase ELSE "unloaded"
          /\ available' = s.available
          /\ disconnect_callbacks' = s.callbacks
          /\ trackers' = Cancelled(trackers, s.called)
          /\ last' = [op |-> after, callbacks |-> disconnect_callbacks,
                      called |-> s.called, cleanup_called |-> s.cleanup_called,
                      log |-> s.log]
    /\ conn' = "down"
    /\ dc_pending' \in (IF conn = "up" \/ dc_pending THEN BOOLEAN ELSE {FALSE})

\* on_stop (lines 179-181), the listener of EVENT_HOMEASSISTANT_STOP.
OnStop ==
    /\ stopping
    /\ cleanup_instance("on_stop")
    /\ UNCHANGED <<listVars, device_info, unique_id, state, stale_state, pc,
                   stopping, connLog, migr, listed,
                   svcVars, voiceVars, device_id>>

\* async_unload_entry (lines 661-666): the cleanup, then the platforms are
\* unloaded, which removes the entities.
UnloadEntry ==
    /\ cleanup_instance("async_unload_entry")
    /\ entities' = {}
    /\ UNCHANGED <<info, old_info, device_info, unique_id, state,
                   stale_state, pc, stopping, connLog, migr, listed,
                   svcVars, voiceVars, device_id>>

\* lines 456-461: a stored device info gives an entry without unique id one.
SetupUniqueId(uid, stored) ==
    IF stored # NoDeviceInfo /\ uid = NoMac THEN format_mac(stored.mac) ELSE uid

\* lines 452-463: the calls async_setup_entry makes once the handlers are
\* defined.
SetupCalls ==
    <<"load_from_store", "update_static_infos", "setup_services",
      "reconnect_logic_start">>

\* async_setup_entry (lines 150-466): the stored snapshot (none before the
\* first connect) is loaded and reconciled, then the reconnect logic starts.
SetupEntry(D, L) ==
    \E stored \in {NoDeviceInfo} \cup D, infos \in L :
        /\ phase = "new"
        /\ stored = NoDeviceInfo => infos = <<>>
        /\ device_info' = stored
        /\ LET r == async_list_entities(infos, info, entities, stored)
               sv == setup_services(NoServices, services, host_services, stored)
           IN /\ info' = r.info
              /\ old_info' = r.old_info
              /\ entities' = r.entities
              /\ services' = sv.services
              /\ host_services' = sv.host
        /\ cleanup_callbacks' =
               Append(StaticInfoCleanup(<<"remove_stop_listener">>, infos),
                      "reconnect_logic.stop_callback")
        /\ unique_id' = SetupUniqueId(unique_id, stored)
        /\ phase' = "running"
        /\ last' = [op |-> "async_setup_entry", uid_before |-> unique_id,
                    stored |-> stored, listing |-> infos, calls |-> SetupCalls]
        /\ UNCHANGED <<available, disconnect_callbacks, state, stale_state,
                       conn, pc, dc_pending, stopping, connLog, migr,
                       listed, voiceVars, device_id, trackers>>

Mac1 == [hw |-> 1, style |-> "lower"]

\* The device infos the device reports in each specification: one of its
\* aspects varies from connect to connect, the others are fixed.
\* FeatureDevices: a bluetooth proxy together with a voice assistant, or
\* neither (VoiceDevices has the voice assistant with and without the proxy).
FeatureDevices ==
    {d \in DeviceInfos : d.mac = Mac1 /\ ~d.has_deep_sleep /\ d.name = Name1
                         /\ d.bt = d.voice}
SleepDevices ==
    {d \in DeviceInfos : d.mac = Mac1 /\ d.voice /\ d.bt /\ d.name = Name1}
MacDevices ==
    {d \in DeviceInfos : ~d.has_deep_sleep /\ d.voice /\ d.bt /\ d.name = Name1}

InitSession(uids) ==
    /\ InitCommon
    /\ phase = "new"
    /\ device_info = NoDeviceInfo
    /\ unique_id \in uids

(***************************************************************************)
(* The voice assistant: _handle_pipeline_start, _handle_pipeline_finished  *)
(* and _handle_pipeline_stop, and the requests of a connected device.      *)
(***************************************************************************)

\* Server objects are numbered from 1; the slot and a port that are None are
\* written 0.
NoServer == 0
NoPort == 0

\* line 321 finding the slot free whatever it holds.
SlotAlwaysFree(server) == TRUE
\* line 321: the slot holds no server.
SlotFree(server) == server = NoServer

\* line 324: a new VoiceAssistantUDPServer object.
NewServer(servers) == FreshIds(servers, 1, 1)[1]

\* The port start_server returns for a server.
PortOf(server) == 40000 + server

\* The device has subscribed the session to its requests of the given kind
\* on the connection that is up.
Subscribed(call) == conn = "up" /\ InSeq(connLog, call)

\* _handle_pipeline_start up to the await of start_server (lines 317-327).
PipelineStart ==
    /\ Subscribed("subscribe_voice_assistant")
    /\ IF ~SlotFree(voice_assistant_udp_server)
       THEN /\ last' = [op |-> "_handle_pipeline_start", returned |-> NoPort,
                        raised |-> FALSE, found |-> voice_assistant_udp_server,
                        created |-> NoServer, device_id |-> device_id,
                        servers_before |-> open_servers,
                        tasks_before |-> pipeline_tasks]
            /\ UNCHANGED voiceVars
       ELSE /\ vpc = "idle"
            /\ Cardinality(open_servers) < MaxServers
            /\ voice_assistant_udp_server' = NewServer(open_servers)
            /\ open_servers' = open_servers \cup {NewServer(open_servers)}
            /\ vpc' = "start_server"
            /\ last' = [op |-> "start_server", found |-> voice_assistant_udp_server,
                        created |-> NewServer(open_servers),
                        servers_before |-> open_servers,
                        tasks_before |-> pipeline_tasks]
            /\ UNCHANGED <<assist_pipeline_state, pipeline_tasks>>
    /\ UNCHANGED <<listVars, device_info, phase, unique_id, available,
                   disconnect_callbacks, state, stale_state, conn, pc,
                   dc_pending, stopping, connLog, migr, listed, svcVars,
                   device_id, trackers>>

\* _handle_pipeline_start resumes from start_server with the port (lines
\* 327-339): the pipeline task is created with device_id.
StartServerDone ==
    /\ vpc = "start_server"
    /\ voice_assistant_udp_server # NoServer
    /\ pipeline_tasks' = pipeline_tasks \cup {voice_assistant_udp_server}
    /\ assist_pipeline_state' = TRUE
    /\ vpc' = "idle"
    /\ last' = [op |-> "_handle_pipeline_start",
                returned |-> PortOf(voice_assistant_udp_server),
                raised |-> FALSE, found |-> NoServer,
                created |-> voice_assistant_udp_server, device_id |-> device_id,
                servers_before |-> open_servers \ {voice_assistant_udp_server},
                tasks_before |-> pipeline_tasks]
    /\ UNCHANGED <<listVars, device_info, phase, unique_id, available,
                   disconnect_callbacks, state, stale_state, conn, pc,
                   dc_pending, stopping, connLog, migr, listed, svcVars,
                   device_id, trackers, voice_assistant_udp_server,
                   open_servers>>

\* start_server raises (line 327): the error leaves _handle_pipeline_start.
StartServerFailed ==
    /\ vpc = "start_server"
    /\ vpc' = "idle"
    /\ last' = [op |-> "_handle_pipeline_start", returned |-> NoPort,
                raised |-> TRUE, found |-> NoServer,
                created |-> voice_assistant_udp_server, device_id |-> device_id,
                servers_before |-> open_servers \ {voice_assistant_udp_server},
                tasks_before |-> pipeline_tasks]
    /\ UNCHANGED <<listVars, device_info, phase, unique_id, available,
                   disconnect_callbacks, state, stale_state, conn, pc,
                   dc_pending, stopping, connLog, migr, listed, svcVars,
                   device_id, trackers, voice_assistant_udp_server,
                   open_servers, assist_pipeline_state, pipeline_tasks>>

\* line 315 left out: the slot keeps the closed server.
FinishedSlotKept(server) == server
\* line 315: what the slot holds once the server in it has been closed.
FinishedSlot(server) == NoServer

\* _handle_pipeline_finished (lines 308-315), called by the server when its
\* pipeline task ends.
PipelineFinished ==
    \E server \in pipeline_tasks :
        /\ pipeline_tasks' = pipeline_tasks \ {server}
        /\ assist_pipeline_state' = FALSE
        /\ IF voice_assistant_udp_server # NoServer
           THEN /\ open_servers' = open_servers \ {voice_assistant_udp_server}
                /\ voice_assistant_udp_server' =
                       FinishedSlot(voice_assistant_udp_server)
           ELSE UNCHANGED <<open_servers, voice_assistant_udp_server>>
        /\ last' = [op |-> "_handle_pipeline_finished", server |-> server,
                    closed |-> voice_assistant_udp_server]
        /\ UNCHANGED <<listVars, device_info, phase, unique_id, available,
                       disconnect_callbacks, state, stale_state, conn, pc,
                       dc_pending, stopping, connLog, migr, listed, svcVars,
                       device_id, trackers, vpc>>

\* _handle_pipeline_stop (lines 341-346).
PipelineStop ==
    /\ Subscribed("subscribe_voice_assistant")
    /\ last' = [op |-> "_handle_pipeline_stop",
                found |-> voice_assistant_udp_server,
                calls |-> IF voice_assistant_udp_server # NoServer
                          THEN <<[fn |-> "stop",
                                  server |-> voice_assistant_udp_server]>>
                          ELSE <<>>]
    /\ UNCHANGED <<listVars, device_info, phase, unique_id, available,
                   disconnect_callbacks, state, stale_state, conn, pc,
                   dc_pending, stopping, connLog, migr, listed, svcVars,
                   device_id, trackers, voiceVars>>

\* The requests a device sends in a session: events under esphome.
SessionServiceCalls ==
    {c \in HomeassistantServiceCalls :
        c.is_event /\ c.domain = "esphome" /\ ~c.data_template /\ c.renders}

\* The device sends a request the session has subscribed to (line 389).
SessionServiceCall ==
    \E service \in SessionServiceCalls :
        /\ Subscribed("subscribe_service_calls")
        /\ last' = Handled(service, device_id)
        /\ UNCHANGED <<listVars, device_info, phase, unique_id, available,
                       disconnect_callbacks, state, stale_state, conn, pc,
                       dc_pending, stopping, connLog, migr, listed, svcVars,
                       device_id, trackers, voiceVars>>

(***************************************************************************)
(* Host states forwarded to the device (lines 239-299).  A host state has   *)
(* a state string and may have the attribute "a"; an attribute value is a   *)
(* Python value with its type.                                              *)
(***************************************************************************)
PyValue(type, v) == [type |-> type, v |-> v]
Absent == PyValue("absent", "")
AttrValues ==
    {PyValue("bool", "True"), PyValue("bool", "False"), PyValue("int", "1"),
     PyValue("int", "0"), PyValue("str", "on")}
NoHostState == [state |-> None, a |-> Absent]
HostStates == [state : {"s1", "s2"}, a : AttrValues \cup {Absent}]
\* The attribute a subscription names: none, the empty string or "a".
TrackedAttributes == {None, "", "a"}
SubscriptionRequests == [entity_id : {"e1"}, attribute : TrackedAttributes]

\* Python's truth value of the attribute argument (str | None).
Truthy(attribute) == attribute \notin {None, ""}
\* attribute in state.attributes
HasAttribute(st, attribute) == attribute = "a" /\ st.a # Absent
\* Python's == on attribute values: bool is a subclass of int, True == 1 and
\* False == 0; a str equals only the same str.
PyNum(val) == IF val.v \in {"True", "1"} THEN 1 ELSE 0
PyEq(x, y) ==
    IF x.type = "str" \/ y.type = "str" THEN x = y ELSE PyNum(x) = PyNum(y)
\* str(send_state)
PyStr(val) == val.v

\* lines 250-253 without the isinstance test.
attr_val_as_is(attr_val) == attr_val
\* lines 250-253: a bool is sent as "on" or "off".
send_state_of(attr_val) ==
    IF attr_val.type = "bool"
    THEN PyValue("str", IF attr_val.v = "True" THEN "on" ELSE "off")
    ELSE attr_val

\* _send_home_assistant_state (lines 239-255): the calls made to the client.
send_home_assistant_state(entity_id, attribute, st) ==
    IF st = NoHostState \/ (Truthy(attribute) /\ ~HasAttribute(st, attribute))
    THEN <<>>
    ELSE <<[fn |-> "send_home_assistant_state", entity_id |-> entity_id,
            attribute |-> attribute,
            state |-> PyStr(IF Truthy(attribute) THEN send_state_of(st.a)
                            ELSE PyValue("str", st.state))]>>

\* lines 267-283: the event brings no change of what is tracked.
NothingTracked(attribute, event) ==
    \/ event.new_state = NoHostState
    \/ /\ event.old_state # NoHostState
       /\ \/ ~Truthy(attribute) /\ event.old_state.state = event.new_state.state
          \/ /\ Truthy(attribute)
             /\ HasAttribute(event.old_state, attribute)
             /\ HasAttribute(event.new_state, attribute)
             /\ PyEq(event.old_state.a, event.new_state.a)

\* send_home_assistant_state_event (lines 263-289) of the tracker of a
\* subscription with the given attribute.
send_home_assistant_state_event(attribute, event) ==
    IF NothingTracked(attribute, event) THEN <<>>
    ELSE send_home_assistant_state(event.entity_id, attribute, event.new_state)

\* The state-change events of the host for the entity "e1".
StateChangeEvents ==
    [entity_id : {"e1"}, old_state : HostStates \cup {NoHostState},
     new_state : HostStates \cup {NoHostState}]

\* async_on_state_subscription (lines 257-299): the device asks for the
\* states of an entity; a tracker is created, its unsub kept among the
\* disconnect callbacks, and the present state st of the entity sent.
StateSubscription(S) ==
    \E req \in SubscriptionRequests, st \in S :
        /\ conn = "up"
        /\ InSeq(connLog, "subscribe_home_assistant_states")
        /\ Cardinality(trackers) < MaxTrackers
        /\ LET unsub == NewCallback("tracker", disconnect_callbacks)
           IN /\ disconnect_callbacks' = Append(disconnect_callbacks, unsub)
              /\ trackers' = trackers \cup
                     {[id |-> unsub.id, entity_id |-> req.entity_id,
                       attribute |-> req.attribute]}
              /\ last' = [op |-> "async_on_state_subscription",
                          tracker |-> unsub.id, entity_id |-> req.entity_id,
                          attribute |-> req.attribute, state |-> st,
                          trackers_before |-> trackers,
                          calls |-> send_home_assistant_state(
                                        req.entity_id, req.attribute, st)]
        /\ UNCHANGED <<listVars, device_info, phase, unique_id, available,
                       state, stale_state, conn, pc, dc_pending, stopping,
                       connLog, migr, listed, svcVars, voiceVars, device_id>>

\* The host fires a state-change event of E: the trackers of the entity
\* that are active run send_home_assistant_state_event, one at a time.
HostStateChanged(E) ==
    \E t \in trackers, event \in E :
        /\ event.entity_id = t.entity_id
        /\ last' = [op |-> "send_home_assistant_state_event",
                    tracker |-> t.id, attribute |-> t.attribute,
                    event |-> event, connected |-> conn = "up",
                    after_disconnect |-> conn = "down" /\ ~dc_pending,
                    calls |-> send_home_assistant_state_event(t.attribute, event)]
        /\ UNCHANGED <<listVars, device_info, phase, unique_id, available,
                       disconnect_callbacks, state, stale_state, conn, pc,
                       dc_pending, stopping, connLog, migr, listed, svcVars,
                       voiceVars, device_id, trackers>>

\* The steps of a session with a device that reports a device info of D and
\* a listing of L.
NextConnection(D, L) ==
    \/ SetupEntry(D, L)
    \/ Connected
    \/ ConnectFailed
    \/ ConnectDeviceInfo(D)
    \/ ConnectScanner
    \/ ConnectListed(L)
    \/ ConnectSubscribed
    \/ ConnectSubscribedHA
    \/ ConnectSubscribedVoice
    \/ ConnectApiError
    \/ ConnectDisconnected
    \/ ConnectionLost
    \/ OnDisconnect
    \/ HostStopping
    \/ OnStop
    \/ UnloadEntry

\* The steps of a session with a device that has entities and pushes their
\* states.
NextSession(D) ==
    \/ NextConnection(D, DeviceListings)
    \/ StateUpdate
    \/ SessionEntityAdded

\* The session of a device whose bluetooth and voice features vary.
Init == InitSession({format_mac(Mac1)})
Next == NextSession(FeatureDevices)
Spec == Init /\ [][Next]_vars

\* The session of a device whose deep-sleep capability varies.
InitSleep == InitSession({format_mac(Mac1)})
NextSleep == NextSession(SleepDevices)
SpecSleep == InitSleep /\ [][NextSleep]_vars

\* The session of a device without entities whose MAC address varies, for a
\* config entry of any identity.
InitMac == InitSession(InitialUniqueIds)
NextMac == NextConnection(MacDevices, {<<>>})
SpecMac == InitMac /\ [][NextMac]_vars

\* The session of a device with a voice assistant, with or without a
\* bluetooth proxy, and no entities.
VoiceDevices ==
    {d \in DeviceInfos : d.mac = Mac1 /\ ~d.has_deep_sleep /\ d.voice
                         /\ d.name = Name1}
InitVoice == InitSession({format_mac(Mac1)})
NextVoice ==
    \/ NextConnection(VoiceDevices, {<<>>})
    \/ PipelineStart
    \/ StartServerDone
    \/ StartServerFailed
    \/ PipelineFinished
    \/ PipelineStop
    \/ SessionServiceCall
SpecVoice == InitVoice /\ [][NextVoice]_vars

\* The session of a device with entities of several keys, from the moment
\* on_connect has subscribed to their states (line 388): states arrive while
\* the host is adding the entities of the listing.
StateListings ==
    {l \in Listings : /\ \A i \in DOMAIN l : l[i].desc = "d1"
                      /\ \A i, j \in DOMAIN l : l[i].key = l[j].key => i = j}
StatePairs == StateKinds \X Keys
SubscribedLog ==
    <<"device_info", "update_device_state", "list_entities_services",
      "update_static_infos", "setup_services", "subscribe_states">>

InitState ==
    \E infos \in StateListings :
        /\ device_info \in {d \in FeatureDevices : ~d.voice /\ ~d.bt}
        /\ info = async_list_entities(infos, EmptyDict, {}, device_info).info
        /\ old_info = async_list_entities(infos, EmptyDict, {}, device_info).old_info
        /\ entities = async_list_entities(infos, EmptyDict, {}, device_info).entities
        /\ phase = "running"
        /\ unique_id = format_mac(Mac1)
        /\ available = TRUE
        /\ disconnect_callbacks = <<>>
        /\ state = EmptyDict
        /\ stale_state = {}
        /\ conn = "up"
        /\ pc = "sub_states"
        /\ dc_pending = FALSE
        /\ stopping = FALSE
        /\ connLog = SubscribedLog
        /\ last = [op |-> "none"]
        /\ migr = [NoMigr EXCEPT !.prev = format_mac(Mac1)]
        /\ listed = NoCall
        /\ services = EmptyDict
        /\ host_services = EmptyDict
        /\ cleanup_callbacks =
               StaticInfoCleanup(<<"remove_stop_listener",
                                   "reconnect_logic.stop_callback">>, infos)
        /\ device_id = DeviceId
        /\ voice_assistant_udp_server = 0
        /\ open_servers = {}
        /\ assist_pipeline_state = FALSE
        /\ pipeline_tasks = {}
        /\ vpc = "idle"
        /\ trackers = {}

NextState == PushState(StatePairs) \/ SessionEntityAdded
SpecState == InitState /\ [][NextState]_vars

\* The session of a device without entities, from the moment on_connect has
\* returned: the device asks for host states and the host's states change.
ConnectedLog ==
    ConnectEnd(<<"device_info", "update_device_state", "list_entities_services",
                 "update_static_infos", "setup_services", "subscribe_states",
                 "subscribe_service_calls", "subscribe_home_assistant_states">>)

InitHaState ==
    /\ device_info \in {d \in FeatureDevices : ~d.voice /\ ~d.bt}
    /\ info = EmptyDict
    /\ old_info = EmptyDict
    /\ entities = {}
    /\ phase = "running"
    /\ unique_id = format_mac(Mac1)
    /\ available = TRUE
    /\ disconnect_callbacks = <<>>
    /\ state = EmptyDict
    /\ stale_state = {}
    /\ conn = "up"
    /\ pc = "idle"
    /\ dc_pending = FALSE
    /\ stopping = FALSE
    /\ connLog = ConnectedLog
    /\ last = [op |-> "none"]
    /\ migr = [NoMigr EXCEPT !.prev = format_mac(Mac1)]
    /\ listed = NoCall
    /\ services = EmptyDict
    /\ host_services = EmptyDict
    /\ cleanup_callbacks = <<"remove_stop_listener", "reconnect_logic.stop_callback">>
    /\ device_id = DeviceId
    /\ voice_assistant_udp_server = 0
    /\ open_servers = {}
    /\ assist_pipeline_state = FALSE
    /\ pipeline_tasks = {}
    /\ vpc = "idle"
    /\ trackers = {}

\* on_connect resumes from async_connect_scanner (lines 375-385) after the
\* connection was lost: the await is not one of the client's, the callback
\* is appended to whatever the list holds by then.
ConnectScannerLate ==
    /\ pc = "scanner"
    /\ conn = "down"
    /\ disconnect_callbacks' =
           Append(disconnect_callbacks, NewCallback("scanner", disconnect_callbacks))
    /\ pc' = "list"
    /\ connLog' = AfterScanner(connLog)
    /\ device_id' = async_setup_device_registry
    /\ last' = [op |-> "on_connect_scanner",
                dispatches |-> OnConnectDeviceUpdate(available).dispatches,
                writes |-> OnConnectDeviceUpdate(available).writes]
    /\ UNCHANGED <<listVars, device_info, phase, unique_id, available, state,
                   stale_state, conn, dc_pending, stopping, migr, listed,
                   svcVars, voiceVars, trackers>>

\* The session of a device with a bluetooth proxy and a voice assistant that
\* asks for host states: connects, disconnects, host stop and unload in
\* every order, with the trackers of the subscriptions.
TrackDevices ==
    {d \in DeviceInfos : d.mac = Mac1 /\ ~d.has_deep_sleep /\ d.voice /\ d.bt
                         /\ d.name = Name1}
TrackStates == {NoHostState, [state |-> "s1", a |-> PyValue("bool", "True")]}
TrackEvents ==
    {e \in StateChangeEvents :
        /\ e.old_state = [state |-> "s1", a |-> PyValue("bool", "True")]
        /\ e.new_state \in {[state |-> "s2", a |-> PyValue("bool", "True")],
                            [state |-> "s1", a |-> PyValue("bool", "False")]}}
InitTrack == InitSession({format_mac(Mac1)})
NextTrack ==
    \/ NextConnection(TrackDevices, {<<>>})
    \/ ConnectScannerLate
    \/ StateSubscription(TrackStates)
    \/ HostStateChanged(TrackEvents)
SpecTrack == InitTrack /\ [][NextTrack]_vars

NextHaState ==
    \/ StateSubscription(HostStates \cup {NoHostState})
    \/ HostStateChanged(StateChangeEvents)
SpecHaState == InitHaState /\ [][NextHaState]_vars

(***************************************************************************)
(* SpecServices: service listings handled for a session whose device info  *)
(* (if any) is fixed.  SpecCalls: requests of the device handled.          *)
(***************************************************************************)
ServiceDevices ==
    {d \in DeviceInfos : d.mac = Mac1 /\ ~d.has_deep_sleep /\ ~d.voice /\ ~d.bt}

InitServices ==
    /\ InitCommon
    /\ phase = "running"
    /\ unique_id = format_mac(Mac1)
    /\ device_info \in {NoDeviceInfo} \cup ServiceDevices

\* _setup_services is awaited with a listing.
SetupServices ==
    \E listing \in ServiceListings :
        /\ LET r == setup_services(listing, services, host_services, device_info)
           IN /\ services' = r.services
              /\ host_services' = r.host
              /\ last' = [op |-> "setup_services", old_services |-> services,
                          listing |-> listing, host_before |-> host_services,
                          returned_early |-> r.returned_early,
                          to_unregister |-> r.to_unregister,
                          to_register |-> r.to_register, log |-> r.log]
        /\ UNCHANGED <<listVars, device_info, phase, unique_id, available,
                       disconnect_callbacks, state, stale_state, conn, pc,
                       dc_pending, stopping, connLog, migr, listed,
                       cleanup_callbacks, voiceVars, device_id, trackers>>

\* The device sends a request; device_id is set once on_connect has set up
\* the device registry entry (line 380).
ServiceCall ==
    \E service \in HomeassistantServiceCalls, has_device_id \in BOOLEAN :
        /\ last' = Handled(service, IF has_device_id THEN DeviceId ELSE None)
        /\ UNCHANGED <<listVars, device_info, phase, unique_id, available,
                       disconnect_callbacks, state, stale_state, conn, pc,
                       dc_pending, stopping, connLog, migr, listed, svcVars, voiceVars, device_id, trackers>>

NextServices == SetupServices

SpecServices == InitServices /\ [][NextServices]_vars

NextCalls == ServiceCall

SpecCalls == InitServices /\ [][NextCalls]_vars

(***************************************************************************)
(* The claims.                                                             *)
(***************************************************************************)
KeysOf(infos) == {infos[i].key : i \in DOMAIN infos}

\* The snapshot a listing stands for: each listed key with the info listed
\* for it (the last one, should a key be listed more than once).
LastIndex(infos, k) ==
    CHOOSE i \in DOMAIN infos :
        /\ infos[i].key = k
        /\ \A j \in DOMAIN infos : infos[j].key = k => j <= i
Snapshot(infos) == [k \in KeysOf(infos) |-> infos[LastIndex(infos, k)]]

\* C1: a call of async_list_entities with the dict A held and the listing B
\* creates entity objects exactly for the keys of B that are not in A (none
\* for a key in both) and requests removal exactly for the keys of A that
\* are not in B.
C1_Reconcile ==
    LET A == DOMAIN listed.A
        B == KeysOf(listed.B)
    IN /\ {c.key : c \in listed.created} = B \ A
       /\ listed.removed = A \ B

\* C2: no two entity objects of the component that the host holds have the
\* same key.
C2_UniqueKeys ==
    \A e1, e2 \in entities : e1.key = e2.key => e1.id = e2.id

C4_StaleAfterDisconnect ==
    /\ last.op = "on_disconnect" =>
           /\ last.cached \subseteq stale_state
           /\ last.cached = DOMAIN state
    /\ (last.op = "async_update_state" /\ last.was_stale) =>
           /\ last.delivered
           /\ last.called = last.subscribers
           /\ state[last.pair] = last.val
           /\ \A e \in entities :
                  e.id \in last.called => e.has_state /\ e.state = <<last.val>>

\* After a disconnect and a reconnect, an update equal to the cached state
\* has been passed to a subscribed entity.
C4_Witness ==
    /\ last.op = "async_update_state"
    /\ last.was_stale
    /\ last.same
    /\ last.called # {}

Count(seq, x) == Cardinality({i \in DOMAIN seq : seq[i] = x})

\* C5: when on_disconnect has run, every callback that was in
\* entry_data.disconnect_callbacks has been called exactly once, the list is
\* empty and entry_data.available is false.
C5_DisconnectCallbacks ==
    last.op = "on_disconnect" =>
        /\ \A i \in DOMAIN last.callbacks : Count(last.called, last.callbacks[i]) = 1
        /\ Range(last.called) = Range(last.callbacks)
        /\ disconnect_callbacks = <<>>
        /\ ~available

\* on_disconnect has run with two callbacks registered.
C5_Witness ==
    /\ last.op = "on_disconnect"
    /\ Len(last.callbacks) = 2

\* C6: on_disconnect while the host is stopping sends no device-updated
\* signal and no entity writes its state; otherwise the signal is sent
\* once, with entry_data.available false and the stale set computed, and
\* every connected entity writes its (unavailable) state.
C6_NoUpdateWhenStopping ==
    last.op = "on_disconnect" =>
        IF last.stopping
        THEN last.dispatches = <<>> /\ last.writes = {}
        ELSE /\ Len(last.dispatches) = 1
             /\ ~last.dispatches[1].available
             /\ last.dispatches[1].stale = last.cached
             /\ last.writes = {[id |-> i, available |-> FALSE] : i \in last.connected}

\* on_disconnect has run while the host was stopping, with an entity
\* connected to the device-updated signal.
C6_Witness ==
    /\ last.op = "on_disconnect"
    /\ last.stopping
    /\ last.connected # {}

\* C7: while the entry is set up, an entity (added to the host) of a device
\* with deep sleep reports available whatever entry_data.available is; an
\* entity of any other device reports available exactly when
\* entry_data.available is true.
C7_Available ==
    phase = "running" =>
        \A e \in entities :
            e.added =>
                EntityAvailable(e, available) =
                    (IF device_info.has_deep_sleep THEN TRUE ELSE available)

\* C8: on_connect updates the unique id exactly when the formatted MAC
\* address of the fetched device info differs from it, and to that address;
\* since the reported (formatted) address last changed it has updated the
\* unique id once if the address differed from the unique id, and never
\* otherwise.
C8_UniqueIdMigration ==
    /\ last.op = "on_connect_device_info" =>
           /\ last.update_called <=> (format_mac(last.mac) # last.uid_before)
           /\ unique_id = format_mac(last.mac)
    /\ migr.updates = (IF migr.needed THEN 1 ELSE 0)

\* A connect that reports, in upper case, the address an earlier connect
\* made the unique id, updates nothing.
C8_Witness ==
    /\ last.op = "on_connect_device_info"
    /\ last.mac.style = "upper"
    /\ ~last.update_called
    /\ migr.updates = 1

Subscriptions == {"subscribe_states", "subscribe_service_calls",
                  "subscribe_home_assistant_states", "subscribe_voice_assistant"}

Before(log, a, j) == \E i \in DOMAIN log : i < j /\ log[i] = a

\* C9: the calls of an on_connect start with the one fetch of the device
\* info; the listing is fetched before it is reconciled, the static infos
\* before the services, and every subscription comes after both.
C9_ConnectOrder ==
    /\ connLog # <<>> =>
           connLog[1] = "device_info" /\ Count(connLog, "device_info") = 1
    /\ \A j \in DOMAIN connLog :
           /\ connLog[j] = "update_static_infos" =>
                  Before(connLog, "list_entities_services", j)
           /\ connLog[j] = "setup_services" =>
                  Before(connLog, "update_static_infos", j)
           /\ connLog[j] \in Subscriptions =>
                  /\ Before(connLog, "update_static_infos", j)
                  /\ Before(connLog, "setup_services", j)

\* An on_connect has run to its end, the voice assistant subscription
\* included.
C9_Witness ==
    /\ pc = "idle"
    /\ Subscriptions \subseteq Range(connLog)
    /\ "save_to_store" \in Range(connLog)

\* C10: on_connect_error starts a re-authentication exactly for the
\* errors RequiresEncryptionAPIError, InvalidEncryptionKeyAPIError and
\* InvalidAuthAPIError.
C10_ReauthOnAuthErrors ==
    last.op = "on_connect_error" =>
        (last.reauth <=> last.err \in {"RequiresEncryptionAPIError",
                                       "InvalidEncryptionKeyAPIError",
                                       "InvalidAuthAPIError"})

\* A connect failed with an invalid encryption key and the
\* re-authentication was started.
C10_Witness ==
    /\ last.op = "on_connect_error"
    /\ last.err = "InvalidEncryptionKeyAPIError"
    /\ last.reauth

APIConnectionErrors ==
    {"APIConnectionError", "InvalidAuthAPIError", "ProtocolAPIError",
     "RequiresEncryptionAPIError", "HandshakeAPIError",
     "InvalidEncryptionKeyAPIError", "SocketAPIError", "TimeoutAPIError"}

ConnectSteps ==
    {"device_info", "update_device_state", "list_entities_services",
     "update_static_infos", "setup_services", "subscribe_states",
     "subscribe_service_calls", "subscribe_home_assistant_states"}

\* C11: a connection error (an APIConnectionError) raised by a step of
\* on_connect is not raised out of on_connect and cli.disconnect() is
\* called; an on_connect that called cli.disconnect() neither runs the two
\* issue checks nor schedules the save to the store; the save is scheduled
\* only when every step has been made.
C11_ConnectFailure ==
    /\ (last.op = "on_connect_failed" /\ last.err \in APIConnectionErrors) =>
           /\ ~last.raised
           /\ connLog # <<>>
           /\ connLog[Len(connLog)] = "disconnect"
    /\ "disconnect" \in Range(connLog) =>
           Range(connLog) \cap {"save_to_store", "check_firmware_version",
                                "check_using_api_password"} = {}
    /\ "save_to_store" \in Range(connLog) =>
           /\ ConnectSteps \subseteq Range(connLog)
           /\ device_info.bt => "connect_scanner" \in Range(connLog)
           /\ device_info.voice => "subscribe_voice_assistant" \in Range(connLog)

\* A subscription of on_connect failed with a connection error, after the
\* listing had been reconciled.
C11_Witness ==
    /\ last.op = "on_connect_failed"
    /\ last.err = "TimeoutAPIError"
    /\ ~last.raised
    /\ "subscribe_service_calls" \in Range(connLog)
    /\ connLog[Len(connLog)] = "disconnect"

\* The host has the service registered, under some name.
Registered(host, service) == \E n \in DOMAIN host : host[n] = service

DistinctKeys(listing) ==
    \A i, j \in DOMAIN listing : listing[i].key = listing[j].key => i = j

LogServices(log, acts) == {log[i].service : i \in {j \in DOMAIN log : log[j].act \in acts}}

\* C12: a call of _setup_services (device info present) with the service
\* map O held and a listing L (stated here for listings that name each key
\* once) unregisters exactly the services of O that are not in L or differ
\* in L, which are then no longer registered with the host, hands exactly
\* the services of L that are not in O or differ from O to
\* _register_service, makes every unregistration before any registration
\* and leaves entry_data.services the services of L by key.
C12_ServiceDiff ==
    (last.op = "setup_services" /\ ~last.returned_early
         /\ DistinctKeys(last.listing)) =>
        LET O == last.old_services
            new == Snapshot(last.listing)
            dropped == {O[k] : k \in {x \in DOMAIN O : x \notin DOMAIN new \/ new[x] # O[x]}}
            fresh == {new[k] : k \in {x \in DOMAIN new : x \notin DOMAIN O \/ new[x] # O[x]}}
        IN /\ services = new
           /\ LogServices(last.log, {"async_remove"}) = dropped
           /\ \A service \in dropped : ~Registered(host_services, service)
           /\ LogServices(last.log, {"async_register", "skip"}) = fresh
           /\ \A i, j \in DOMAIN last.log :
                  (last.log[i].act = "async_remove" /\ last.log[j].act # "async_remove")
                      => i < j

\* C13: of the services a call of _setup_services is to register, one with
\* an argument of unknown type is not registered (async_register is not
\* called for it) and every one whose argument types are all known is
\* registered, under the name _register_service gives it, whatever else
\* the listing holds.
C13_UnknownArgSkipped ==
    last.op = "setup_services" =>
        \A i \in DOMAIN last.to_register :
            LET service == last.to_register[i]
                made == [act |-> "async_register",
                         name |-> RegisterName(device_info, service),
                         service |-> service]
            IN IF \E a \in DOMAIN service.args :
                      service.args[a] \notin {"BOOL", "INT", "FLOAT", "STRING",
                                               "BOOL_ARRAY", "INT_ARRAY",
                                               "FLOAT_ARRAY", "STRING_ARRAY"}
               THEN \A j \in DOMAIN last.log :
                        last.log[j].service = service => last.log[j].act # "async_register"
               ELSE /\ InSeq(last.log, made)
                    /\ RegisterName(device_info, service) \in DOMAIN host_services

\* A listing named a service with an argument of unknown type and then a
\* service with known argument types: the first was skipped, the second
\* is registered.
C13_Witness ==
    /\ last.op = "setup_services"
    /\ Len(last.log) = 2
    /\ last.log[1].act = "skip"
    /\ last.log[2].act = "async_register"
    /\ last.log[1].service.key # last.log[2].service.key
    /\ Registered(host_services, last.log[2].service)
    /\ ~Registered(host_services, last.log[1].service)

\* C14: a request whose data template fails to render makes
\* async_on_service_call call nothing on the host: no event is fired, no
\* tag scan started, no service called.
C14_TemplateErrorDrops ==
    (last.op = "async_on_service_call" /\ last.service.data_template
         /\ ~last.service.renders) =>
        last.calls = <<>>

\* An event request under the esphome domain, which would have been fired,
\* was dropped because its template did not render.
C14_Witness ==
    /\ last.op = "async_on_service_call"
    /\ last.service.data_template
    /\ ~last.service.renders
    /\ last.service.is_event
    /\ last.service.domain = "esphome"
    /\ last.calls = <<>>

\* C20: a request flagged as an event fires an event on the bus only if its
\* domain is "esphome"; under any other domain async_on_service_call calls
\* nothing on the host.
C20_EventDomain ==
    (last.op = "async_on_service_call" /\ last.service.is_event) =>
        /\ InSeq(last.calls, "bus.async_fire") => last.service.domain = "esphome"
        /\ last.service.domain # "esphome" => last.calls = <<>>

\* An event request under a domain that differs from "esphome" in case only,
\* its data at hand, was dropped.
C20_Witness ==
    /\ last.op = "async_on_service_call"
    /\ last.service.is_event
    /\ ~last.service.data_template
    /\ last.service.domain = "ESPHome"
    /\ last.calls = <<>>

IndexOf(seq, x) == CHOOSE i \in DOMAIN seq : seq[i] = x

\* C15: async_setup_entry loads the stored snapshot, reconciles the static
\* infos and then the services, and only then starts the reconnect logic:
\* the entity infos held after it are those of the stored listing, and no
\* connect attempt and no call of on_connect has been made before it ends.
C15_SnapshotBeforeReconnect ==
    /\ phase = "new" =>
           /\ conn = "down"
           /\ pc = "idle"
           /\ connLog = <<>>
           /\ last.op = "none"
    /\ last.op = "async_setup_entry" =>
           /\ IndexOf(last.calls, "load_from_store")
                  < IndexOf(last.calls, "update_static_infos")
           /\ IndexOf(last.calls, "update_static_infos")
                  < IndexOf(last.calls, "setup_services")
           /\ IndexOf(last.calls, "setup_services")
                  < IndexOf(last.calls, "reconnect_logic_start")
           /\ DOMAIN info = KeysOf(last.listing)
           /\ {e.key : e \in entities} = KeysOf(last.listing)
           /\ device_info = last.stored
           /\ conn = "down"
           /\ connLog = <<>>

\* A setup that found a stored listing with an entity.
C15_Witness ==
    /\ last.op = "async_setup_entry"
    /\ last.stored # NoDeviceInfo
    /\ Len(last.listing) = 1
    /\ Cardinality(entities) = 1
    /\ InSeq(cleanup_callbacks, "reconnect_logic.stop_callback")

\* C16: when on_stop or async_unload_entry has run, the session is out of
\* the domain data, entry_data.available is false, every disconnect
\* callback and every cleanup callback (the stop of the reconnect logic
\* among them) has been called once, the client's disconnect was called
\* last, after all of these, and entry_data.disconnect_callbacks is empty.
C16_UnloadCleanup ==
    last.op \in {"on_stop", "async_unload_entry"} =>
        /\ phase = "unloaded"
        /\ ~available
        /\ \A cb \in Range(last.callbacks) :
               Count(last.called, cb) = Count(last.callbacks, cb)
        /\ Len(last.called) = Len(last.callbacks)
        /\ last.cleanup_called = cleanup_callbacks
        /\ Count(last.cleanup_called, "reconnect_logic.stop_callback") = 1
        /\ disconnect_callbacks = <<>>
        /\ last.log[Len(last.log)] = "client_disconnect"
        /\ Count(last.log, "client_disconnect") = 1
        /\ {"pop_entry_data", "available_false", "disconnect_callbacks",
            "cleanup_callbacks"} \subseteq Range(last.log)
        /\ conn = "down"

\* An unload of a connected session with a disconnect callback registered
\* and the platform's static-info callback among the cleanup callbacks.
C16_Witness ==
    /\ last.op = "async_unload_entry"
    /\ last.callbacks # <<>>
    /\ last.called = last.callbacks
    /\ Len(last.cleanup_called) = 3
    /\ connLog # <<>>

EntityById(id) == CHOOSE e \in entities : e.id = id

\* C17: a state that entry_data passes on is passed to exactly the added
\* entities of its (state type, key) pair, each of which then holds it, and
\* changes no other entity (with no such entity it is only cached); an
\* entity that async_added_to_hass has run for has _has_state true exactly
\* when the cache holds a state for its pair, and then holds that state.
C17_StateFanOut ==
    /\ (last.op = "async_update_state" /\ last.delivered) =>
           /\ last.called =
                  {e.id : e \in {x \in entities :
                                   x.added /\ <<"SensorState", x.key>> = last.pair}}
           /\ last.changed \subseteq last.called
           /\ \A e \in entities :
                  e.id \in last.called =>
                      e.has_state /\ e.state = <<last.val>>
           /\ state[last.pair] = last.val
    /\ last.op = "async_added_to_hass" =>
           LET e == EntityById(last.id)
               p == <<"SensorState", e.key>>
           IN /\ e.added
              /\ e.has_state <=> p \in DOMAIN state
              /\ e.has_state => e.state = <<state[p]>>

\* A state arrived while the entity of its key was not added yet and was
\* only cached; the entity, added afterwards, holds it.
C17_Witness ==
    /\ last.op = "async_added_to_hass"
    /\ EntityById(last.id).has_state
    /\ EntityById(last.id).state = <<"on">>
    /\ \E e \in entities : e.added /\ e.id # last.id /\ ~e.has_state

\* C18: after a call of async_list_entities, entry_data.old_info holds the
\* dict entry_data.info held immediately before the call, the infos of the
\* entities that are kept included.
C18_OldInfoSnapshot == old_info = listed.A

\* The registrable services of a service map (those whose argument types
\* are all known), under the names _register_service gives them.
Registrable(svcs) ==
    {svcs[k] : k \in {x \in DOMAIN svcs :
                        \A a \in DOMAIN svcs[x].args :
                            svcs[x].args[a] \in ARG_TYPE_METADATA}}
HostTable(dev, svcs) ==
    [n \in {RegisterName(dev, sv) : sv \in Registrable(svcs)} |->
        CHOOSE sv \in Registrable(svcs) : RegisterName(dev, sv) = n]

\* C19: the name a call of _setup_services removes a service under is the
\* name _register_service registers it under, for every device name; so a
\* call that starts with the host holding the registrable services of
\* entry_data.services (and a listing that names each key once) ends with
\* the host holding exactly the registrable services of the listing.
C19_RemoveMatchesRegister ==
    (last.op = "setup_services" /\ ~last.returned_early) =>
        /\ \A i \in DOMAIN last.to_unregister :
               RemoveName(device_info, last.to_unregister[i])
                   = RegisterName(device_info, last.to_unregister[i])
        /\ (/\ DistinctKeys(last.listing)
            /\ last.host_before = HostTable(device_info, last.old_services))
               => host_services = HostTable(device_info, services)

C22_OneServer ==
    /\ Cardinality(open_servers) <= 1
    /\ Cardinality(pipeline_tasks) <= 1
    /\ (last.op = "_handle_pipeline_start" /\ last.found # NoServer) =>
           /\ last.returned = NoPort
           /\ last.created = NoServer
           /\ open_servers = last.servers_before
           /\ pipeline_tasks = last.tasks_before
           /\ voice_assistant_udp_server = last.found

\* A pipeline start was requested while the server of a running pipeline
\* held the slot.
C22_Witness ==
    /\ last.op = "_handle_pipeline_start"
    /\ last.found # NoServer
    /\ last.returned = NoPort
    /\ pipeline_tasks = {last.found}
    /\ assist_pipeline_state

\* C23: when _handle_pipeline_finished has run, the assist-pipeline state is
\* inactive, the server of the slot is closed and the slot is empty; a
\* _handle_pipeline_start that finds the slot empty creates a new server,
\* puts it in the slot and, start_server having returned, starts its
\* pipeline and returns its port; _handle_pipeline_stop with an empty slot
\* calls nothing.
C23_PipelineFinished ==
    /\ last.op = "_handle_pipeline_finished" =>
           /\ ~assist_pipeline_state
           /\ voice_assistant_udp_server = NoServer
           /\ last.closed \notin open_servers
           /\ vpc = "idle"
    /\ last.op = "start_server" =>
           /\ last.found = NoServer
           /\ last.created \notin last.servers_before
           /\ last.created \in open_servers
           /\ voice_assistant_udp_server = last.created
    /\ (last.op = "_handle_pipeline_start" /\ last.found = NoServer
            /\ ~last.raised) =>
           /\ last.returned = PortOf(last.created)
           /\ last.created \in pipeline_tasks
           /\ last.created \in open_servers
    /\ (last.op = "_handle_pipeline_stop" /\ last.found = NoServer) =>
           last.calls = <<>>

\* The pipeline of the server in the slot has finished: the server is
\* closed, the slot empty.
C23_Witness ==
    /\ last.op = "_handle_pipeline_finished"
    /\ last.closed # NoServer
    /\ last.closed = last.server
    /\ voice_assistant_udp_server = NoServer
    /\ open_servers = {}

\* C24: a _handle_pipeline_start whose start_server raised leaves the slot
\* empty, so that a later request is not turned down for it; the
\* assist-pipeline state is active only while a server is in the slot.
C24_StartFailureFreesSlot ==
    /\ (last.op = "_handle_pipeline_start" /\ last.raised) =>
           voice_assistant_udp_server = NoServer
    /\ assist_pipeline_state => voice_assistant_udp_server # NoServer

\* C29: async_on_service_call and _handle_pipeline_start run only after
\* on_connect has stored the device registry id: once either subscription
\* is made device_id is set, a request of the device and a pipeline start
\* are handled with it, and a tag_scanned event with a tag id reaches
\* tag.async_scan_tag with it.
C29_DeviceIdStored ==
    /\ (InSeq(connLog, "subscribe_service_calls")
            \/ InSeq(connLog, "subscribe_voice_assistant")) =>
           device_id = DeviceId
    /\ last.op = "async_on_service_call" =>
           /\ last.has_device_id
           /\ (last.service.service_name = "tag_scanned"
                   /\ last.service.tag_id # "no tag_id") =>
                  last.host_calls =
                      <<[fn |-> "tag.async_scan_tag",
                         tag_id |-> last.service.tag_id,
                         device_id |-> DeviceId]>>
    /\ last.op = "_handle_pipeline_start" => last.device_id = DeviceId
    /\ pipeline_tasks # {} => device_id = DeviceId

\* A tag_scanned event is handled while a pipeline started earlier runs.
C29_Witness ==
    /\ last.op = "async_on_service_call"
    /\ last.service.service_name = "tag_scanned"
    /\ last.service.tag_id = "tag1"
    /\ last.host_calls[1].device_id = DeviceId
    /\ pipeline_tasks # {}
    /\ assist_pipeline_state

\* C25: a state-change event of the host is forwarded to the device if and
\* only if the new state exists, holds the tracked attribute when one is
\* given, and there is no old state or the tracked value (the state, or the
\* attribute) is not equal to the old one; what is sent is the new state's
\* tracked value, a boolean attribute value as "on" or "off".
Tracked(st, attribute) ==
    IF Truthy(attribute) THEN st.a ELSE PyValue("str", st.state)

C25_StateForwarded ==
    last.op = "send_home_assistant_state_event" =>
        LET old == last.event.old_state
            new == last.event.new_state
            val == Tracked(new, last.attribute)
            forward ==
                /\ new # NoHostState
                /\ val # Absent
                /\ \/ old = NoHostState
                   \/ Tracked(old, last.attribute) = Absent
                   \/ ~PyEq(Tracked(old, last.attribute), val)
        IN /\ forward <=> Len(last.calls) = 1
           /\ Len(last.calls) <= 1
           /\ forward =>
                  /\ last.calls[1].entity_id = last.event.entity_id
                  /\ last.calls[1].attribute = last.attribute
                  /\ last.calls[1].state =
                         CASE val = PyValue("bool", "True") -> "on"
                           [] val = PyValue("bool", "False") -> "off"
                           [] OTHER -> val.v

\* The tracked attribute changes from False to True with the state
\* unchanged: "on" is sent.
C25_Witness ==
    /\ last.op = "send_home_assistant_state_event"
    /\ last.attribute = "a"
    /\ last.event.old_state = [state |-> "s1", a |-> PyValue("bool", "False")]
    /\ last.event.new_state = [state |-> "s1", a |-> PyValue("bool", "True")]
    /\ last.calls = <<[fn |-> "send_home_assistant_state", entity_id |-> "e1",
                       attribute |-> "a", state |-> "on"]>>

\* C26: the trackers of host states do not accumulate: the active trackers
\* are those whose unsub is among the disconnect callbacks, all requested
\* on the present connection; once the disconnect has been handled or the
\* entry unloaded none is left, and none runs from then on.
TrackerCallbacks ==
    {disconnect_callbacks[i].id :
        i \in {j \in DOMAIN disconnect_callbacks :
                  disconnect_callbacks[j].kind = "tracker"}}

C26_TrackersCancelled ==
    /\ {t.id : t \in trackers} = TrackerCallbacks
    /\ Cardinality(trackers) = Cardinality(TrackerCallbacks)
    /\ trackers # {} => InSeq(connLog, "subscribe_home_assistant_states")
    /\ (conn = "down" /\ ~dc_pending) => trackers = {}
    /\ phase = "unloaded" => trackers = {}
    /\ last.op = "send_home_assistant_state_event" => ~last.after_disconnect
    /\ last.op \in {"on_disconnect", "on_stop", "async_unload_entry"} =>
           trackers = {}

\* A disconnect has been handled that cancelled two trackers.
C26_Witness ==
    /\ last.op = "on_disconnect"
    /\ Cardinality({i \in DOMAIN last.called : last.called[i].kind = "tracker"}) = 2
    /\ trackers = {}
    /\ conn = "down"

\* C27: no disconnect callback is called more than once: the callbacks of
\* the list have not been called, and those a disconnect, a host stop or an
\* unload has called were distinct and had not been called before.
C27_CalledOnce ==
    /\ \A i \in DOMAIN disconnect_callbacks : disconnect_callbacks[i].calls = 0
    /\ \A i, j \in DOMAIN disconnect_callbacks :
           disconnect_callbacks[i] = disconnect_callbacks[j] => i = j
    /\ last.op \in {"on_disconnect", "on_stop", "async_unload_entry"} =>
           /\ \A i \in DOMAIN last.called : last.called[i].calls = 0
           /\ \A i, j \in DOMAIN last.called :
                  last.called[i].id = last.called[j].id => i = j

\* on_disconnect has run the scanner callback of an on_connect that is still
\* in progress.
C27_Witness ==
    /\ last.op = "on_disconnect"
    /\ pc = "list"
    /\ Len(last.called) = 1
    /\ last.called[1].kind = "scanner"
    /\ disconnect_callbacks = <<>>

\* C28: whenever neither on_connect nor a disconnect is in progress or
\* waiting to be handled, the session is available only if the connection
\* is up and a device info is stored; when on_connect has failed and the
\* disconnect it asked for has been handled, the session is unavailable.
C28_AvailableWhenConnected ==
    (pc = "idle" /\ ~dc_pending) =>
        /\ available => (conn = "up" /\ device_info # NoDeviceInfo)
        /\ InSeq(connLog, "disconnect") => (~available /\ conn = "down")

\* on_connect had made the session available, failed at a later call and
\* the disconnect has been handled.
C28_Witness ==
    /\ pc = "idle"
    /\ ~dc_pending
    /\ last.op = "on_disconnect"
    /\ InSeq(connLog, "update_device_state")
    /\ InSeq(connLog, "disconnect")
    /\ ~available
    /\ phase = "running"

\* C30: on a device-updated signal the entities write their state only when
\* entry_data.available is false: the signal of on_connect writes nothing,
\* that of on_disconnect writes the state of every connected entity.  Once
\* the disconnect is handled every cached pair is stale, so that the next
\* state of a pair that arrives after the reconnect, equal to the cached
\* one or not, is passed to the entities subscribed to the pair, which
\* write it.
C30_WriteOnlyWhenUnavailable ==
    /\ last.op \in {"on_connect_device_info", "on_connect_scanner",
                    "on_disconnect"} =>
           /\ \A i \in DOMAIN last.dispatches :
                  /\ last.dispatches[i].available => last.writes = {}
                  /\ ~last.dispatches[i].available =>
                         {w.id : w \in last.writes} = {e.id : e \in Added(entities)}
           /\ last.dispatches = <<>> => last.writes = {}
    /\ last.op \in {"on_connect_device_info", "on_connect_scanner"} =>
           last.writes = {}
    /\ (phase = "running" /\ conn = "down" /\ ~dc_pending) =>
           stale_state = DOMAIN state
    /\ stale_state \subseteq DOMAIN state
    /\ (last.op = "async_update_state" /\ last.was_stale) =>
           /\ last.delivered
           /\ last.called = last.subscribers
           /\ last.pair \notin stale_state

\* On a reconnect, with an entity connected and its cached state stale, the
\* device-updated signal of on_connect has been sent and nothing written.
C30_Witness ==
    /\ last.op \in {"on_connect_device_info", "on_connect_scanner"}
    /\ Len(last.dispatches) = 1
    /\ last.dispatches[1].available
    /\ \E e \in Added(entities) : <<"SensorState", e.key>> \in stale_state
    /\ last.writes = {}

====
